---- MODULE Spec2Model ----
(***************************************************************************)
(* A model of bcos-boostssl/websocket/WsSession.cpp: one WebSocket session *)
(* with its transport handle, outbound queue, callback registry, timers,   *)
(* worker pool, and the threads that run its methods.                      *)
(*                                                                         *)
(* Threads: the read-completion chain, the write-completion chain, one     *)
(* handler per request timer (all run by the io_context, which the session *)
(* does not serialise with a strand), NumCallers application threads, and  *)
(* the worker pool.  A method is cut into steps at its accesses to shared  *)
(* state; a section under the exclusive lock x_queue is one step unless    *)
(* drop() runs inside it, a section under the shared lock x_callback is    *)
(* two steps (find, erase) because a shared lock admits several holders.   *)
(***************************************************************************)
EXTENDS Integers, Sequences, FiniteSets, Bags, TLC

\* ------------------------------------------------------------------ bounds
NumCallers == 2      \* application threads calling into the session
MaxSends == 2        \* asyncSendMessage calls in one run
MaxReads == 2        \* read completions in one run
MaxCtl == 1          \* ping / pong / drop / disconnect calls by callers
MaxFaults == 1       \* transport faults and malformed packets in one run
NumSeq == 2          \* distinct sequence identifiers

Reqs == 1..MaxSends          \* a request = one asyncSendMessage call; also its buffer and its CallBack
Msgs == 1..MaxReads          \* an inbound message = one successful read completion
SeqIds == 1..NumSeq
NoCb == 0                    \* nullptr CallBack::Ptr / absent registry entry
Timeouts == {-1, 0, 1}       \* Options::timeout and m_sendMsgTimeout: negative, zero, positive

RProc == <<"read", 0>>
WProc == <<"write", 0>>
Caller(i) == <<"caller", i>>
TimerProc(r) == <<"timer", r>>
Callers == {Caller(i) : i \in 1..NumCallers}
Procs == {RProc, WProc} \cup Callers

PingKinds == {"PingError", "PongError"}

VARIABLES
    m_isDrop,          \* the dropped flag
    m_stream,          \* the transport handle: "open" (non-null) or "null"
    m_queue,           \* outbound queue: sequence of buffers (request ids)
    m_callbacks,       \* registry: SeqIds -> request id of the stored CallBack, or NoCb
    m_sendMsgTimeout,  \* session default send timeout
    x_queue,           \* holder of the exclusive queue lock: {} or {thread}
    x_callback,        \* set of holders of the registry lock in shared mode
    pc,                \* position of each thread
    loc,               \* locals of each thread
    timer,             \* per request: state of its deadline timer / timer handler
    tcb,               \* per timer handler: the callback its find returned
    req,               \* per request: what asyncSendMessage was called with
    pool,              \* bag of tasks enqueued on the worker pool, not yet run
    readOps,           \* asyncRead operations pending at the transport
    writeOps,          \* buffers of asyncWrite operations pending at the transport
    nClose,            \* executions of m_stream->close()
    nSends, nReads, nCtl,   \* calls made so far (bounded)
    nFaults,           \* transport faults and malformed packets so far (bounded)
    nDrop,             \* drop() calls (the "drop" log line)
    nConnect,          \* connect-handler invocations
    written,           \* every buffer handed to the transport's asyncWrite, in order
    enq,               \* every buffer appended to m_queue, in order
    calls,             \* bag of the handler invocations made so far (the tasks run)
    inbound,           \* per read completion: what the transport delivered
    ioAfterDrop,       \* an asyncRead/asyncWrite reached the transport while m_isDrop
    crashed,           \* the process was terminated by undefined behaviour
    dropReasons,       \* the reasons drop() has been called with (the "drop" log lines)
    alive              \* the session object exists: some shared_ptr still owns it

vars == <<m_isDrop, m_stream, m_queue, m_callbacks, m_sendMsgTimeout, x_queue,
          x_callback, pc, loc, timer, tcb, req, pool, readOps, writeOps, nClose,
          nSends, nReads, nCtl, nFaults, nDrop, nConnect, written,
          enq, calls, inbound, ioAfterDrop, crashed, dropReasons, alive>>

NoLoc == [reason |-> "", ret |-> "", inDrop |-> FALSE, req |-> 0, seq |-> 0,
          cb |-> NoCb, msg |-> 0]
NoReq == [seq |-> 0, resp |-> FALSE, timed |-> FALSE]

\* a read completion: its error code and, without error, the bytes in m_buffer
Read(ec, valid, seq) == [ec |-> ec, valid |-> valid, seq |-> seq]
NoRead == Read(FALSE, FALSE, 0)

Task(kind, cb, msg, seq) == [kind |-> kind, cb |-> cb, msg |-> msg, seq |-> seq]
DisconnectTask == Task("disconnect", NoCb, 0, 0)
Enqueue(p, t) == p (+) SetToBag({t})

Init ==
    /\ m_isDrop = FALSE
    /\ m_stream = "open"
    /\ m_queue = <<>>
    /\ m_callbacks = [s \in SeqIds |-> NoCb]
    /\ m_sendMsgTimeout = 0
    /\ x_queue = {}
    /\ x_callback = {}
    /\ pc = [p \in Procs |-> IF p = RProc THEN "new" ELSE "idle"]
    /\ loc = [p \in Procs |-> NoLoc]
    /\ timer = [r \in Reqs |-> "none"]
    /\ tcb = [r \in Reqs |-> NoCb]
    /\ req = [r \in Reqs |-> NoReq]
    /\ pool = EmptyBag
    /\ readOps = 0
    /\ writeOps = <<>>
    /\ nClose = 0
    /\ nSends = 0 /\ nReads = 0 /\ nCtl = 0 /\ nFaults = 0
    /\ nDrop = 0 /\ nConnect = 0
    /\ written = <<>>
    /\ enq = <<>>
    /\ calls = EmptyBag
    /\ inbound = [k \in Msgs |-> NoRead]
    /\ ioAfterDrop = FALSE
    /\ crashed = FALSE
    /\ dropReasons = {}
    /\ alive = TRUE

\* ----------------------------------------------------------------- helpers
Goto(p, label) == pc' = [pc EXCEPT ![p] = label]

\* call drop(reason) from thread p whose locals are l; continue at ret afterwards
GoDrop(p, l, reason, ret) ==
    /\ pc' = [pc EXCEPT ![p] = "drop"]
    /\ loc' = [loc EXCEPT ![p] = [l EXCEPT !.reason = reason, !.ret = ret]]

\* return to the caller of drop()/disconnect(); ret = "unlock" is the end of the
\* scope of a std::unique_lock on x_queue taken before asyncWrite() threw
Return(p) ==
    /\ pc' = [pc EXCEPT ![p] = IF loc[p].ret = "unlock" THEN "idle" ELSE loc[p].ret]
    /\ loc' = [loc EXCEPT ![p] = NoLoc]
    /\ x_queue' = IF loc[p].ret = "unlock" THEN {} ELSE x_queue

\* dereferencing the null transport handle, or erasing through an iterator another
\* holder of the shared lock already erased: the process dies or carries on
Undefined == crashed' \in {TRUE, FALSE}

Established == nConnect > 0

\* the transport (or the peer) misbehaves, at most MaxFaults times in a run
Fault == nFaults < MaxFaults /\ nFaults' = nFaults + 1
NoFault == nFaults' = nFaults

\* application threads are interchangeable: a new call runs on the lowest idle one
CanCall(c) ==
    /\ ~crashed /\ alive /\ Established /\ pc[c] = "idle"
    /\ \A i \in 1..NumCallers : i < c[2] => pc[Caller(i)] # "idle"


\* ------------------------------------------------- teardown: drop, disconnect
\* drop(): m_isDrop = true, then disconnect()'s test of m_stream
Drop(p) ==
    /\ ~crashed /\ pc[p] = "drop"
    /\ m_isDrop' = TRUE
    /\ nDrop' = nDrop + 1
    /\ pc' = [pc EXCEPT ![p] = IF m_stream # "null" THEN "disc_close" ELSE "drop_enq"]
    /\ loc' = [loc EXCEPT ![p].inDrop = TRUE]
    /\ UNCHANGED <<nFaults, m_stream, m_queue, m_callbacks, m_sendMsgTimeout, x_queue,
                   x_callback, timer, tcb, req, pool, readOps, writeOps, nClose,
                   nSends, nReads, nCtl, nConnect, written, enq,
                   calls, inbound, ioAfterDrop, crashed>>
    /\ dropReasons' = dropReasons \cup {loc[p].reason}
    /\ UNCHANGED alive

\* disconnect() called directly: if (m_stream)
DiscCheck(p) ==
    /\ ~crashed /\ pc[p] = "disc_check"
    /\ IF m_stream # "null"
       THEN Goto(p, "disc_close") /\ UNCHANGED <<loc, x_queue>>
       ELSE Return(p)
    /\ UNCHANGED <<nFaults, m_isDrop, m_stream, m_queue, m_callbacks, m_sendMsgTimeout,
                   x_callback, timer, tcb, req, pool, readOps, writeOps, nClose,
                   nSends, nReads, nCtl, nDrop, nConnect, written,
                   enq, calls, inbound, ioAfterDrop, crashed>>
    /\ UNCHANGED <<dropReasons, alive>>

\* m_stream->close()
DiscClose(p) ==
    /\ ~crashed /\ pc[p] = "disc_close"
    /\ Goto(p, "disc_null")
    /\ \/ /\ m_stream # "null"
          /\ nClose' = nClose + 1
          /\ UNCHANGED crashed
       \/ /\ m_stream = "null"
          /\ Undefined
          /\ UNCHANGED nClose
    /\ UNCHANGED <<nFaults, m_isDrop, m_stream, m_queue, m_callbacks, m_sendMsgTimeout,
                   x_queue, x_callback, loc, timer, tcb, req, pool, readOps,
                   writeOps, nSends, nReads, nCtl, nDrop, nConnect,
                   written, enq, calls, inbound, ioAfterDrop>>
    /\ UNCHANGED <<dropReasons, alive>>

\* m_stream = nullptr
DiscNull(p) ==
    /\ ~crashed /\ pc[p] = "disc_null"
    /\ m_stream' = "null"
    /\ IF loc[p].inDrop
       THEN Goto(p, "drop_enq") /\ UNCHANGED <<loc, x_queue>>
       ELSE Return(p)
    /\ UNCHANGED <<nFaults, m_isDrop, m_queue, m_callbacks, m_sendMsgTimeout, x_callback,
                   timer, tcb, req, pool, readOps, writeOps, nClose, nSends,
                   nReads, nCtl, nDrop, nConnect, written, enq,
                   calls, inbound, ioAfterDrop, crashed>>
    /\ UNCHANGED <<dropReasons, alive>>

\* what one drop() call hands to the worker pool
DropTasks(pl) == Enqueue(pl, DisconnectTask)

\* m_threadPool->enqueue(disconnect handler); drop() returns
DropEnq(p) ==
    /\ ~crashed /\ pc[p] = "drop_enq"
    /\ pool' = DropTasks(pool)
    /\ Return(p)
    /\ UNCHANGED <<nFaults, m_isDrop, m_stream, m_queue, m_callbacks, m_sendMsgTimeout,
                   x_callback, timer, tcb, req, readOps, writeOps, nClose, nSends,
                   nReads, nCtl, nDrop, nConnect, written, enq,
                   calls, inbound, ioAfterDrop, crashed>>
    /\ UNCHANGED <<dropReasons, alive>>

\* a caller thread calls drop(reason)
CallDrop(c) ==
    /\ CanCall(c) /\ nCtl < MaxCtl
    /\ nCtl' = nCtl + 1
    /\ GoDrop(c, NoLoc, "UserDrop", "idle")
    /\ UNCHANGED <<nFaults, m_isDrop, m_stream, m_queue, m_callbacks, m_sendMsgTimeout,
                   x_queue, x_callback, timer, tcb, req, pool, readOps, writeOps,
                   nClose, nSends, nReads, nDrop, nConnect, written,
                   enq, calls, inbound, ioAfterDrop, crashed>>
    /\ UNCHANGED <<dropReasons, alive>>

\* a caller thread calls disconnect()
CallDisconnect(c) ==
    /\ CanCall(c) /\ nCtl < MaxCtl
    /\ nCtl' = nCtl + 1
    /\ pc' = [pc EXCEPT ![c] = "disc_check"]
    /\ loc' = [loc EXCEPT ![c] = [NoLoc EXCEPT !.ret = "idle"]]
    /\ UNCHANGED <<nFaults, m_isDrop, m_stream, m_queue, m_callbacks, m_sendMsgTimeout,
                   x_queue, x_callback, timer, tcb, req, pool, readOps, writeOps,
                   nClose, nSends, nReads, nDrop, nConnect, written,
                   enq, calls, inbound, ioAfterDrop, crashed>>
    /\ UNCHANGED <<dropReasons, alive>>

\* ping() / pong(): if (m_stream)
Ping(c, kind) ==
    /\ CanCall(c) /\ nCtl < MaxCtl
    /\ nCtl' = nCtl + 1
    /\ IF m_stream # "null"
       THEN /\ pc' = [pc EXCEPT ![c] = "ping_call"]
            /\ loc' = [loc EXCEPT ![c] = [NoLoc EXCEPT !.reason = kind]]
       ELSE UNCHANGED <<pc, loc>>
    /\ UNCHANGED <<nFaults, m_isDrop, m_stream, m_queue, m_callbacks, m_sendMsgTimeout,
                   x_queue, x_callback, timer, tcb, req, pool, readOps, writeOps,
                   nClose, nSends, nReads, nDrop, nConnect, written,
                   enq, calls, inbound, ioAfterDrop, crashed>>
    /\ UNCHANGED <<dropReasons, alive>>

\* m_stream->ping() / m_stream->pong(): returns, or throws and the catch drops
PingCall(c) ==
    /\ ~crashed /\ pc[c] = "ping_call"
    /\ \/ /\ m_stream # "null"
          /\ NoFault
          /\ pc' = [pc EXCEPT ![c] = "idle"]
          /\ loc' = [loc EXCEPT ![c] = NoLoc]
          /\ UNCHANGED crashed
       \/ /\ m_stream # "null"
          /\ Fault
          /\ GoDrop(c, NoLoc, loc[c].reason, "idle")
          /\ UNCHANGED crashed
       \/ /\ m_stream = "null"
          /\ NoFault
          /\ Undefined
          /\ pc' = [pc EXCEPT ![c] = "idle"]
          /\ loc' = [loc EXCEPT ![c] = NoLoc]
    /\ UNCHANGED <<m_isDrop, m_stream, m_queue, m_callbacks, m_sendMsgTimeout,
                   x_queue, x_callback, timer, tcb, req, pool, readOps, writeOps,
                   nClose, nSends, nReads, nCtl, nDrop, nConnect,
                   written, enq, calls, inbound, ioAfterDrop>>
    /\ UNCHANGED <<dropReasons, alive>>

\* ------------------------------------------------------------ session start
\* startAsClient(): m_connectHandler(nullptr, session); asyncRead() follows
StartAsClient ==
    /\ ~crashed /\ pc[RProc] = "new"
    /\ nConnect' = nConnect + 1
    /\ Goto(RProc, "rearm")
    /\ UNCHANGED <<nFaults, m_isDrop, m_stream, m_queue, m_callbacks, m_sendMsgTimeout,
                   x_queue, x_callback, loc, timer, tcb, req, pool, readOps,
                   writeOps, nClose, nSends, nReads, nCtl, nDrop, written, enq, calls, inbound, ioAfterDrop, crashed>>
    /\ UNCHANGED <<dropReasons, alive>>

\* startAsServer(): m_stream->asyncHandshake(request, onHandshake)
StartAsServer ==
    /\ ~crashed /\ pc[RProc] = "new"
    /\ Goto(RProc, "handshaking")
    /\ UNCHANGED <<nFaults, m_isDrop, m_stream, m_queue, m_callbacks, m_sendMsgTimeout,
                   x_queue, x_callback, loc, timer, tcb, req, pool, readOps,
                   writeOps, nClose, nSends, nReads, nCtl, nDrop, nConnect, written, enq, calls, inbound, ioAfterDrop, crashed>>
    /\ UNCHANGED <<dropReasons, alive>>

\* onHandshake without its test of _ec: the failed handshake goes on as a good one
OnHandshake_NoCheck(ec) ==
    /\ ~crashed /\ pc[RProc] = "handshaking"
    /\ IF ec THEN Fault ELSE NoFault
    /\ nConnect' = nConnect + 1
    /\ Goto(RProc, "rearm")
    /\ UNCHANGED <<loc, m_isDrop, m_stream, m_queue, m_callbacks, m_sendMsgTimeout,
                   x_queue, x_callback, timer, tcb, req, pool, readOps, writeOps,
                   nClose, nSends, nReads, nCtl, nDrop, written, enq,
                   calls, inbound, ioAfterDrop, crashed, dropReasons, alive>>

\* onHandshake(ec)
OnHandshake(ec) ==
    /\ ~crashed /\ pc[RProc] = "handshaking"
    /\ IF ec
       THEN /\ Fault
            /\ GoDrop(RProc, NoLoc, "AcceptError", "idle")
            /\ UNCHANGED nConnect
       ELSE /\ NoFault
            /\ nConnect' = nConnect + 1
            /\ Goto(RProc, "rearm")
            /\ UNCHANGED loc
    /\ UNCHANGED <<m_isDrop, m_stream, m_queue, m_callbacks, m_sendMsgTimeout,
                   x_queue, x_callback, timer, tcb, req, pool, readOps, writeOps,
                   nClose, nSends, nReads, nCtl, nDrop, written, enq,
                   calls, inbound, ioAfterDrop, crashed>>
    /\ UNCHANGED <<dropReasons, alive>>

\* ------------------------------------------------------- callback registry
\* addRespCallback: m_callbacks[_seq] = _callback
Insert_Lost(cbs, s, cb) == cbs                      \* the buffer is queued unregistered
Insert(cbs, s, cb) == [cbs EXCEPT ![s] = cb]
\* getAndRemoveRespCallback: m_callbacks.find(_seq), it->second or nullptr
Find(cbs, s) == cbs[s]
\* getAndRemoveRespCallback: m_callbacks.erase(it)
Erase_All(cbs, s) == [x \in DOMAIN cbs |-> NoCb]     \* clear() in place of erase(it)
Erase(cbs, s) == [cbs EXCEPT ![s] = NoCb]

\* ------------------------------------------------------------- read pipeline
Packets == {[valid |-> TRUE, seq |-> s] : s \in SeqIds} \cup {[valid |-> FALSE, seq |-> 1]}
\* message->decode(data, size): negative on a framing error
Decode(pkt) == IF pkt.valid THEN 0 ELSE -1
DecodeFailed_Never(status) == FALSE                \* the status is not tested
DecodeFailed(status) == status < 0

\* the task onReadPacket enqueues for message k with sequence identifier s
ReadTask_AlwaysRecv(cb, k, s) == Task("recv", NoCb, k, s)   \* the callback is ignored
ReadTask(cb, k, s) ==
    IF cb # NoCb THEN Task("resp", cb, k, s) ELSE Task("recv", NoCb, k, s)

\* asyncRead(): m_stream->asyncRead(m_buffer, onRead); the catch drops
AsyncRead ==
    /\ ~crashed /\ pc[RProc] = "rearm"
    /\ \/ /\ m_stream # "null"
          /\ NoFault
          /\ readOps' = readOps + 1
          /\ ioAfterDrop' = (ioAfterDrop \/ m_isDrop)
          /\ Goto(RProc, "idle")
          /\ UNCHANGED <<loc, crashed>>
       \/ /\ m_stream # "null"
          /\ Fault
          /\ GoDrop(RProc, NoLoc, "ReadError", "idle")
          /\ UNCHANGED <<readOps, ioAfterDrop, crashed>>
       \/ /\ m_stream = "null"
          /\ NoFault
          /\ Undefined
          /\ Goto(RProc, "idle")
          /\ UNCHANGED <<readOps, ioAfterDrop, loc>>
    /\ UNCHANGED <<m_isDrop, m_stream, m_queue, m_callbacks, m_sendMsgTimeout,
                   x_queue, x_callback, timer, tcb, req, pool, writeOps, nClose,
                   nSends, nReads, nCtl, nDrop, nConnect, written,
                   enq, calls, inbound>>
    /\ UNCHANGED <<dropReasons, alive>>

\* onReadPacket(buffer) up to the find of getAndRemoveRespCallback
OnReadPacket(pkt, k) ==
    IF DecodeFailed(Decode(pkt))
    THEN /\ GoDrop(RProc, NoLoc, "PacketError", "rearm")
         /\ UNCHANGED <<x_callback, pool>>
    ELSE LET cb == Find(m_callbacks, pkt.seq) IN
         IF cb = NoCb
         THEN /\ pool' = Enqueue(pool, ReadTask(NoCb, k, pkt.seq))
              /\ Goto(RProc, "rearm")
              /\ UNCHANGED <<x_callback, loc>>
         ELSE /\ x_callback' = x_callback \cup {RProc}
              /\ Goto(RProc, "r_erase")
              /\ loc' = [loc EXCEPT ![RProc] =
                            [NoLoc EXCEPT !.cb = cb, !.seq = pkt.seq, !.msg = k]]
              /\ UNCHANGED pool

\* onRead(ec, n): the completion of the pending asyncRead
OnRead(ec, pkt) ==
    /\ ~crashed /\ pc[RProc] = "idle" /\ readOps > 0 /\ nReads < MaxReads
    /\ readOps' = readOps - 1
    /\ nReads' = nReads + 1
    /\ inbound' = [inbound EXCEPT ![nReads + 1] =
                       IF ec THEN Read(TRUE, FALSE, 0) ELSE Read(FALSE, pkt.valid, pkt.seq)]
    /\ IF ec \/ ~pkt.valid THEN Fault ELSE NoFault
    /\ IF ec
       THEN /\ GoDrop(RProc, NoLoc, "ReadError", "idle")
            /\ UNCHANGED <<x_callback, pool>>
       ELSE OnReadPacket(pkt, nReads + 1)
    /\ UNCHANGED <<m_isDrop, m_stream, m_queue, m_callbacks, m_sendMsgTimeout,
                   x_queue, timer, tcb, req, writeOps, nClose, nSends, nCtl, nDrop,
                   nConnect, written, enq, calls,
                   ioAfterDrop, crashed>>
    /\ UNCHANGED <<dropReasons, alive>>

\* getAndRemoveRespCallback's erase and unlock, then the enqueue of the task
ReadErase ==
    /\ ~crashed /\ pc[RProc] = "r_erase"
    /\ LET l == loc[RProc] IN
       /\ \/ /\ Find(m_callbacks, l.seq) = l.cb
             /\ m_callbacks' = Erase(m_callbacks, l.seq)
             /\ UNCHANGED crashed
          \/ /\ Find(m_callbacks, l.seq) # l.cb
             /\ Undefined
             /\ UNCHANGED m_callbacks
       /\ pool' = Enqueue(pool, ReadTask(l.cb, l.msg, l.seq))
    /\ x_callback' = x_callback \ {RProc}
    /\ Goto(RProc, "rearm")
    /\ loc' = [loc EXCEPT ![RProc] = NoLoc]
    /\ UNCHANGED <<nFaults, m_isDrop, m_stream, m_queue, m_sendMsgTimeout, x_queue, timer,
                   tcb, req, readOps, writeOps, nClose, nSends, nReads, nCtl,
                   nDrop, nConnect, written, enq, calls, inbound, ioAfterDrop>>
    /\ UNCHANGED <<dropReasons, alive>>

\* --------------------------------------------------------------- write queue
\* asyncSendMessage: auto isEmpty = m_queue.empty()
QueueWasEmpty_Always(q) == TRUE                    \* write without testing isEmpty
QueueWasEmpty_Short(q) == Len(q) <= 1             \* isEmpty = m_queue.size() <= 1
QueueWasEmpty_Never(q) == FALSE                    \* isEmpty taken after push_back
QueueWasEmpty(q) == q = <<>>
\* onWritePacket: m_queue.erase(m_queue.begin()); the queue is never empty there
PopFront_Keep(q) == q                              \* the sent buffer is not erased
PopFront(q) == SubSeq(q, 2, Len(q))

\* asyncWrite() by thread p, holding x_queue, on queue q: the write is issued, or
\* m_stream->asyncWrite throws and the catch drops with the lock still held
AsyncWrite(p, q) ==
    \/ /\ m_stream # "null"
       /\ NoFault
       /\ writeOps' = Append(writeOps, Head(q))
       /\ written' = Append(written, Head(q))
       /\ ioAfterDrop' = (ioAfterDrop \/ m_isDrop)
       /\ pc' = [pc EXCEPT ![p] = "idle"]
       /\ loc' = [loc EXCEPT ![p] = NoLoc]
       /\ x_queue' = {}
       /\ UNCHANGED crashed
    \/ /\ m_stream # "null"
       /\ Fault
       /\ GoDrop(p, NoLoc, "WriteError", "unlock")
       /\ x_queue' = {p}
       /\ UNCHANGED <<writeOps, written, ioAfterDrop, crashed>>
    \/ /\ m_stream = "null"
       /\ NoFault
       /\ Undefined
       /\ pc' = [pc EXCEPT ![p] = "idle"]
       /\ loc' = [loc EXCEPT ![p] = NoLoc]
       /\ x_queue' = {}
       /\ UNCHANGED <<writeOps, written, ioAfterDrop>>

\* onWrite(ec, n): the completion of a pending asyncWrite
OnWrite(ec) ==
    /\ ~crashed /\ pc[WProc] = "idle" /\ writeOps # <<>>
    /\ writeOps' = Tail(writeOps)
    /\ IF ec
       THEN Fault /\ GoDrop(WProc, NoLoc, "WriteError", "idle")
       ELSE NoFault /\ Goto(WProc, "w_packet") /\ UNCHANGED loc
    /\ UNCHANGED <<m_isDrop, m_stream, m_queue, m_callbacks, m_sendMsgTimeout,
                   x_queue, x_callback, timer, tcb, req, pool, readOps, nClose,
                   nSends, nReads, nCtl, nDrop, nConnect, written,
                   enq, calls, inbound, ioAfterDrop, crashed>>
    /\ UNCHANGED <<dropReasons, alive>>

\* onWritePacket(): under x_queue, pop the sent buffer and write the next one
OnWritePacket ==
    /\ ~crashed /\ pc[WProc] = "w_packet" /\ x_queue = {}
    /\ m_queue' = PopFront(m_queue)
    /\ IF m_queue' # <<>>
       THEN AsyncWrite(WProc, m_queue')
       ELSE /\ Goto(WProc, "idle")
            /\ UNCHANGED <<loc, x_queue, writeOps, written, ioAfterDrop, crashed, nFaults>>
    /\ UNCHANGED <<m_isDrop, m_stream, m_callbacks, m_sendMsgTimeout, x_callback,
                   timer, tcb, req, pool, readOps, nClose, nSends, nReads, nCtl,
                   nDrop, nConnect, enq, calls, inbound>>
    /\ UNCHANGED <<dropReasons, alive>>

\* ---------------------------------------------------------- asyncSendMessage
\* auto timeout = _options.timeout > 0 ? _options.timeout : m_sendMsgTimeout
SelectTimeout(opt, def) == IF opt > 0 THEN opt ELSE def
\* if (timeout > 0): a timer is created and started
TimerStarted(opt, def) == SelectTimeout(opt, def) > 0

\* asyncSendMessage(msg, options, respFunc) up to timer->async_wait
SendStart(c, s, resp, opt) ==
    /\ CanCall(c) /\ nSends < MaxSends
    /\ LET r == nSends + 1
           timed == resp /\ TimerStarted(opt, m_sendMsgTimeout) IN
       /\ nSends' = r
       /\ req' = [req EXCEPT ![r] = [seq |-> s, resp |-> resp, timed |-> timed]]
       /\ timer' = [timer EXCEPT ![r] = IF timed THEN "armed" ELSE "none"]
       /\ pc' = [pc EXCEPT ![c] = IF resp THEN "send_add" ELSE "send_queue"]
       /\ loc' = [loc EXCEPT ![c] = [NoLoc EXCEPT !.req = r, !.seq = s]]
    /\ UNCHANGED <<nFaults, m_isDrop, m_stream, m_queue, m_callbacks, m_sendMsgTimeout,
                   x_queue, x_callback, tcb, pool, readOps, writeOps, nClose,
                   nReads, nCtl, nDrop, nConnect, written, enq,
                   calls, inbound, ioAfterDrop, crashed>>
    /\ UNCHANGED <<dropReasons, alive>>

\* addRespCallback(seq, callback) under the exclusive lock on x_callback
SendAdd(c) ==
    /\ ~crashed /\ pc[c] = "send_add" /\ x_callback = {}
    /\ m_callbacks' = Insert(m_callbacks, loc[c].seq, loc[c].req)
    /\ Goto(c, "send_queue")
    /\ UNCHANGED <<nFaults, m_isDrop, m_stream, m_queue, m_sendMsgTimeout, x_queue,
                   x_callback, loc, timer, tcb, req, pool, readOps, writeOps,
                   nClose, nSends, nReads, nCtl, nDrop, nConnect,
                   written, enq, calls, inbound, ioAfterDrop, crashed>>
    /\ UNCHANGED <<dropReasons, alive>>

\* under x_queue: push_back(buffer); if the queue was empty, asyncWrite()
SendQueue(c) ==
    /\ ~crashed /\ pc[c] = "send_queue" /\ x_queue = {}
    /\ m_queue' = Append(m_queue, loc[c].req)
    /\ enq' = Append(enq, loc[c].req)
    /\ IF QueueWasEmpty(m_queue)
       THEN AsyncWrite(c, m_queue')
       ELSE /\ pc' = [pc EXCEPT ![c] = "idle"]
            /\ loc' = [loc EXCEPT ![c] = NoLoc]
            /\ UNCHANGED <<x_queue, writeOps, written, ioAfterDrop, crashed,
                           nFaults>>
    /\ UNCHANGED <<m_isDrop, m_stream, m_callbacks, m_sendMsgTimeout, x_callback,
                   timer, tcb, req, pool, readOps, nClose, nSends, nReads, nCtl,
                   nDrop, nConnect, calls, inbound>>
    /\ UNCHANGED <<dropReasons, alive>>

\* -------------------------------------------------------------------- timers
\* the timer of request r expires: its handler runs onRespTimeout(no error, seq)
\* up to the find of getAndRemoveRespCallback
TimerFire(r) ==
    /\ ~crashed /\ timer[r] = "armed"
    /\ LET cb == Find(m_callbacks, req[r].seq) IN
       IF cb = NoCb
       THEN /\ timer' = [timer EXCEPT ![r] = "done"]
            /\ UNCHANGED <<tcb, x_callback>>
       ELSE /\ timer' = [timer EXCEPT ![r] = "erase"]
            /\ tcb' = [tcb EXCEPT ![r] = cb]
            /\ x_callback' = x_callback \cup {TimerProc(r)}
    /\ UNCHANGED <<nFaults, m_isDrop, m_stream, m_queue, m_callbacks, m_sendMsgTimeout,
                   x_queue, pc, loc, req, pool, readOps, writeOps, nClose, nSends,
                   nReads, nCtl, nDrop, nConnect, written, enq,
                   calls, inbound, ioAfterDrop, crashed>>
    /\ UNCHANGED <<dropReasons, alive>>

\* the handler of a cancelled timer runs onRespTimeout(operation_aborted, seq)
TimerAborted(r) ==
    /\ ~crashed /\ timer[r] = "cancelled"
    /\ timer' = [timer EXCEPT ![r] = "done"]
    /\ UNCHANGED <<nFaults, m_isDrop, m_stream, m_queue, m_callbacks, m_sendMsgTimeout,
                   x_queue, x_callback, pc, loc, tcb, req, pool, readOps,
                   writeOps, nClose, nSends, nReads, nCtl, nDrop, nConnect, written, enq, calls, inbound, ioAfterDrop, crashed>>
    /\ UNCHANGED <<dropReasons, alive>>

\* onRespTimeout: the erase and unlock, then the enqueue of the TimeOut task
TimerErase(r) ==
    /\ ~crashed /\ timer[r] = "erase"
    /\ \/ /\ Find(m_callbacks, req[r].seq) = tcb[r]
          /\ m_callbacks' = Erase(m_callbacks, req[r].seq)
          /\ UNCHANGED crashed
       \/ /\ Find(m_callbacks, req[r].seq) # tcb[r]
          /\ Undefined
          /\ UNCHANGED m_callbacks
    /\ pool' = Enqueue(pool, Task("timeout", tcb[r], 0, req[r].seq))
    /\ x_callback' = x_callback \ {TimerProc(r)}
    /\ timer' = [timer EXCEPT ![r] = "done"]
    /\ tcb' = [tcb EXCEPT ![r] = NoCb]
    /\ UNCHANGED <<nFaults, m_isDrop, m_stream, m_queue, m_sendMsgTimeout, x_queue, pc, loc,
                   req, readOps, writeOps, nClose, nSends, nReads, nCtl, nDrop,
                   nConnect, written, enq, calls, inbound,
                   ioAfterDrop>>
    /\ UNCHANGED <<dropReasons, alive>>

\* --------------------------------------------------------------- worker pool
\* callback->timer->cancel(): a timer still waiting is cancelled, a handler
\* already running or finished is not affected; nor is a timer that has expired
\* with its handler queued on the io_context, which RunTask leaves "armed"
Cancel(tm, r) == IF tm[r] = "armed" THEN [tm EXCEPT ![r] = "cancelled"] ELSE tm

\* the task re-resolves a weak reference to the session before it acts: the
\* disconnect, response and receive tasks do (self.lock()), the TimeOut task
\* captured the callback and the error only
ChecksSession(t) == t.kind # "timeout"
\* the task gets to its handler
Runs(t) == ChecksSession(t) => alive

\* a worker thread runs one enqueued task
RunTask(t) ==
    /\ ~crashed /\ BagIn(t, pool)
    /\ pool' = pool (-) SetToBag({t})
    /\ IF t.kind = "resp" /\ Runs(t)
       THEN timer' \in {Cancel(timer, t.cb), timer}
       ELSE timer' = timer
    /\ calls' = IF Runs(t) THEN calls (+) SetToBag({t}) ELSE calls
    /\ UNCHANGED <<nFaults, m_isDrop, m_stream, m_queue, m_callbacks,
                   m_sendMsgTimeout, x_queue, x_callback, pc, loc, tcb, req,
                   readOps, writeOps, nClose, nSends, nReads, nCtl, nDrop,
                   nConnect, written, enq, inbound, ioAfterDrop, crashed>>
    /\ UNCHANGED <<dropReasons, alive>>

\* the last owner releases the session: ~WsSession().  The handlers bound to a
\* pending asyncRead / asyncWrite and the threads inside a method own the session
\* (shared_from_this()), so none of them is left; the timer handlers hold a weak
\* reference and find no session from now on
Destroy ==
    /\ ~crashed /\ alive
    /\ pc[RProc] = "idle" /\ pc[WProc] = "idle"
    /\ \A c \in Callers : pc[c] = "idle"
    /\ readOps = 0 /\ writeOps = <<>>
    /\ \A r \in Reqs : timer[r] # "erase"
    /\ alive' = FALSE
    /\ timer' = [r \in Reqs |-> IF timer[r] = "none" THEN "none" ELSE "done"]
    /\ UNCHANGED <<m_isDrop, m_stream, m_queue, m_callbacks, m_sendMsgTimeout,
                   x_queue, x_callback, pc, loc, tcb, req, pool, readOps, writeOps,
                   nClose, nSends, nReads, nCtl, nFaults, nDrop, nConnect, written,
                   enq, calls, inbound, ioAfterDrop, crashed, dropReasons>>

\* handler invocations so far
DisconnectCalls == CopiesIn(DisconnectTask, calls)
RespCalls(r) == {t \in BagToSet(calls) : t.kind = "resp" /\ t.cb = r}
TimeoutCalls(r) == {t \in BagToSet(calls) : t.kind = "timeout" /\ t.cb = r}
RecvCalls(k) == {t \in BagToSet(calls) : t.kind = "recv" /\ t.msg = k}

\* ------------------------------------------------------------- specification
Next ==
    \/ StartAsClient
    \/ StartAsServer
    \/ \E ec \in BOOLEAN : OnHandshake(ec)
    \/ AsyncRead
    \/ \E ec \in BOOLEAN, pkt \in Packets : OnRead(ec, pkt)
    \/ ReadErase
    \/ \E ec \in BOOLEAN : OnWrite(ec)
    \/ OnWritePacket
    \/ \E p \in Procs : Drop(p)
    \/ \E p \in Procs : DiscClose(p)
    \/ \E p \in Procs : DiscNull(p)
    \/ \E p \in Procs : DropEnq(p)
    \/ \E c \in Callers : DiscCheck(c)
    \/ \E c \in Callers : CallDrop(c)
    \/ \E c \in Callers : CallDisconnect(c)
    \/ \E c \in Callers, kind \in PingKinds : Ping(c, kind)
    \/ \E c \in Callers : PingCall(c)
    \/ \E c \in Callers, s \in SeqIds, resp \in BOOLEAN, opt \in Timeouts :
           SendStart(c, s, resp, opt)
    \/ \E c \in Callers : SendAdd(c)
    \/ \E c \in Callers : SendQueue(c)
    \/ \E r \in Reqs : TimerFire(r)
    \/ \E r \in Reqs : TimerAborted(r)
    \/ \E r \in Reqs : TimerErase(r)
    \/ \E t \in BagToSet(pool) : RunTask(t)
    \/ Destroy

Spec == Init /\ [][Next]_vars

\* The session's I/O and teardown: fire-and-forget sends, the write queue, the
\* read loop, transport faults, and ping / pong / drop / disconnect by callers.
\* No response handler is ever supplied, so the registry stays empty.
NextIO ==
    \/ StartAsClient
    \/ StartAsServer
    \/ \E ec \in BOOLEAN : OnHandshake(ec)
    \/ AsyncRead
    \/ \E ec \in BOOLEAN, pkt \in Packets : OnRead(ec, pkt)
    \/ \E ec \in BOOLEAN : OnWrite(ec)
    \/ OnWritePacket
    \/ \E p \in Procs : Drop(p)
    \/ \E p \in Procs : DiscClose(p)
    \/ \E p \in Procs : DiscNull(p)
    \/ \E p \in Procs : DropEnq(p)
    \/ \E c \in Callers : DiscCheck(c)
    \/ \E c \in Callers : CallDrop(c)
    \/ \E c \in Callers : CallDisconnect(c)
    \/ \E c \in Callers, kind \in PingKinds : Ping(c, kind)
    \/ \E c \in Callers : PingCall(c)
    \/ \E c \in Callers, s \in SeqIds, opt \in Timeouts : SendStart(c, s, FALSE, opt)
    \/ \E c \in Callers : SendQueue(c)
    \/ \E t \in BagToSet(pool) : RunTask(t)

SpecIO == Init /\ [][NextIO]_vars

\* Request / response correlation: every send supplies a response handler; the
\* transport may fail, but no caller pings or tears the session down.  Write
\* completions, which touch neither the registry nor the timers, are left to
\* SpecIO: the first buffer stays in flight.
InitRpc ==
    /\ m_isDrop = FALSE
    /\ m_stream = "open"
    /\ m_queue = <<>>
    /\ m_callbacks = [s \in SeqIds |-> NoCb]
    /\ m_sendMsgTimeout = 0
    /\ x_queue = {}
    /\ x_callback = {}
    /\ pc = [p \in Procs |-> IF p = RProc THEN "new" ELSE "idle"]
    /\ loc = [p \in Procs |-> NoLoc]
    /\ timer = [r \in Reqs |-> "none"]
    /\ tcb = [r \in Reqs |-> NoCb]
    /\ req = [r \in Reqs |-> NoReq]
    /\ pool = EmptyBag
    /\ readOps = 0
    /\ writeOps = <<>>
    /\ nClose = 0
    /\ nSends = 0 /\ nReads = 0 /\ nCtl = MaxCtl /\ nFaults = 0
    /\ nDrop = 0 /\ nConnect = 0
    /\ written = <<>>
    /\ enq = <<>>
    /\ calls = EmptyBag
    /\ inbound = [k \in Msgs |-> NoRead]
    /\ ioAfterDrop = FALSE
    /\ crashed = FALSE
    /\ dropReasons = {}
    /\ alive = TRUE

NextRpc ==
    \/ StartAsClient
    \/ AsyncRead
    \/ \E ec \in BOOLEAN, pkt \in Packets : OnRead(ec, pkt)
    \/ ReadErase
    \/ \E p \in Procs : Drop(p)
    \/ \E p \in Procs : DiscClose(p)
    \/ \E p \in Procs : DiscNull(p)
    \/ \E p \in Procs : DropEnq(p)
    \/ \E c \in Callers, s \in SeqIds, opt \in Timeouts : SendStart(c, s, TRUE, opt)
    \/ \E c \in Callers : SendAdd(c)
    \/ \E c \in Callers : SendQueue(c)
    \/ \E r \in Reqs : TimerFire(r)
    \/ \E r \in Reqs : TimerAborted(r)
    \/ \E r \in Reqs : TimerErase(r)
    \/ \E t \in BagToSet(pool) : RunTask(t)

SpecRpc == InitRpc /\ [][NextRpc]_vars

\* The same, with callers that keep the sequence identifier unique per
\* outstanding request: an identifier is used again only after the handler of
\* the request that carried it has been invoked.
Outstanding(r) == r <= nSends /\ req[r].resp /\ RespCalls(r) = {} /\ TimeoutCalls(r) = {}
FreeSeqs == {s \in SeqIds : \A r \in Reqs : Outstanding(r) => req[r].seq # s}

NextUniq ==
    \/ StartAsClient
    \/ AsyncRead
    \/ \E ec \in BOOLEAN, pkt \in Packets : OnRead(ec, pkt)
    \/ ReadErase
    \/ \E p \in Procs : Drop(p)
    \/ \E p \in Procs : DiscClose(p)
    \/ \E p \in Procs : DiscNull(p)
    \/ \E p \in Procs : DropEnq(p)
    \/ \E c \in Callers, s \in FreeSeqs, opt \in Timeouts : SendStart(c, s, TRUE, opt)
    \/ \E c \in Callers : SendAdd(c)
    \/ \E c \in Callers : SendQueue(c)
    \/ \E r \in Reqs : TimerFire(r)
    \/ \E r \in Reqs : TimerAborted(r)
    \/ \E r \in Reqs : TimerErase(r)
    \/ \E t \in BagToSet(pool) : RunTask(t)

SpecUniq == InitRpc /\ [][NextUniq]_vars

\* The session's lifetime: requests with response handlers, the read loop and
\* the write completions as above, and the release of the session by its last
\* owner while tasks are still queued on the worker pool.
NextLife ==
    \/ StartAsClient
    \/ AsyncRead
    \/ \E ec \in BOOLEAN, pkt \in Packets : OnRead(ec, pkt)
    \/ ReadErase
    \/ OnWrite(FALSE)
    \/ OnWritePacket
    \/ \E p \in Procs : Drop(p)
    \/ \E p \in Procs : DiscClose(p)
    \/ \E p \in Procs : DiscNull(p)
    \/ \E p \in Procs : DropEnq(p)
    \/ \E c \in Callers, s \in FreeSeqs, opt \in Timeouts : SendStart(c, s, TRUE, opt)
    \/ \E c \in Callers : SendAdd(c)
    \/ \E c \in Callers : SendQueue(c)
    \/ \E r \in Reqs : TimerFire(r)
    \/ \E r \in Reqs : TimerAborted(r)
    \/ \E r \in Reqs : TimerErase(r)
    \/ \E t \in BagToSet(pool) : RunTask(t)
    \/ Destroy

SpecLife == InitRpc /\ [][NextLife]_vars

\* The write queue alone, with the scheduling the io_context and the threads
\* give it: a pending write completes (well or with an error), a completion
\* handler that has started goes on to onWritePacket, a caller inside
\* asyncSendMessage gets to its queue section.  Callers may tear the session down.
NextWrite ==
    \/ StartAsClient
    \/ \E ec \in BOOLEAN : OnWrite(ec)
    \/ OnWritePacket
    \/ \E p \in Procs : Drop(p)
    \/ \E p \in Procs : DiscClose(p)
    \/ \E p \in Procs : DiscNull(p)
    \/ \E p \in Procs : DropEnq(p)
    \/ \E c \in Callers : DiscCheck(c)
    \/ \E c \in Callers : CallDrop(c)
    \/ \E c \in Callers : CallDisconnect(c)
    \/ \E c \in Callers, s \in SeqIds, opt \in Timeouts : SendStart(c, s, FALSE, opt)
    \/ \E c \in Callers : SendQueue(c)
    \/ \E t \in BagToSet(pool) : RunTask(t)

SpecWrite ==
    /\ Init /\ [][NextWrite]_vars
    /\ WF_vars(\E ec \in BOOLEAN : OnWrite(ec))
    /\ WF_vars(OnWritePacket)
    /\ \A c \in Callers : WF_vars(SendQueue(c))


\* ====================================================================== claims

\* C1: however many drop() calls a session sees, the disconnect handler is
\* invoked at most once.
C1_DisconnectOnce == DisconnectCalls <= 1

\* C2: m_stream->close() is executed at most once per session, under every
\* interleaving of drop(), disconnect(), ping() and pong().
C2_CloseOnce == nClose <= 1

\* C3: once m_isDrop is set, no asyncRead and no asyncWrite reaches the transport.
C3_NoIoAfterDrop == ~ioAfterDrop

IsPrefix(a, b) == Len(a) <= Len(b) /\ a = SubSeq(b, 1, Len(a))
\* no transport fault, no teardown: the session is healthy
Healthy == nFaults = 0 /\ ~m_isDrop /\ m_stream = "open" /\ ~crashed
\* every send has returned and every issued write has completed
WritesSettled ==
    /\ \A c \in Callers : pc[c] = "idle"
    /\ pc[WProc] = "idle" /\ writeOps = <<>>

\* C4: the buffers handed to the transport are the buffers appended to the
\* outbound queue, each once and in the order of the appends; on a healthy
\* session, once the writes have settled, all of them have been handed over.
C4_FifoOrder ==
    /\ IsPrefix(written, enq)
    /\ (Healthy /\ WritesSettled) => written = enq
C4_Witness ==
    /\ Healthy /\ WritesSettled
    /\ Len(enq) = MaxSends /\ written = enq /\ m_queue = <<>>

\* C5: at most one asyncWrite is pending at the transport.
C5_SingleWriter == Len(writeOps) <= 1
C5_Witness == Len(m_queue) >= 2 /\ Len(writeOps) = 1 /\ Healthy

\* the handler of request r has been invoked with a message / with TimeOut
Resolved(r) == RespCalls(r) # {} \/ TimeoutCalls(r) # {}

\* C6: the response handler of a request is never invoked both with the
\* response and with a TimeOut error.
C6_NotBoth == \A r \in Reqs : RespCalls(r) = {} \/ TimeoutCalls(r) = {}

\* nothing inside the session can still invoke a response handler: every send
\* has returned, every timer handler has finished, no thread holds a callback
\* it took from the registry, and the worker pool is idle
Settled ==
    /\ ~crashed
    /\ \A c \in Callers : pc[c] = "idle"
    /\ \A r \in Reqs : timer[r] \in {"none", "done"}
    /\ pc[RProc] = "idle"
    /\ pool = EmptyBag

\* C7: a request sent with a response handler and a positive timeout does not
\* end in silence: once the session has settled, its handler has been invoked.
C7_NeverSilent == \A r \in Reqs : (req[r].timed /\ Settled) => Resolved(r)

BadRead(k) == k <= nReads /\ ~inbound[k].ec /\ ~inbound[k].valid
GoodRead(k) == k <= nReads /\ ~inbound[k].ec /\ inbound[k].valid
\* the tasks enqueued for inbound message k, run or not
TasksFor(k) == {t \in BagToSet(pool) \cup BagToSet(calls) : t.msg = k}
Copies(t) == CopiesIn(t, pool) + CopiesIn(t, calls)

\* the parts of the decode-failure claim: a state invariant and two step properties
C8_NoTaskForBadRead == \A k \in Msgs : BadRead(k) => TasksFor(k) = {}
C8_BadReadStep ==
    (nReads' = nReads + 1 /\ ~inbound'[nReads'].ec /\ ~inbound'[nReads'].valid)
        => /\ pc'[RProc] = "drop" /\ loc'[RProc].reason = "PacketError"
           /\ m_callbacks' = m_callbacks
           /\ pool' = pool /\ calls' = calls
C8_PacketErrorDrop ==
    (pc'[RProc] # pc[RProc] /\ loc[RProc].reason = "PacketError")
        => /\ m_callbacks' = m_callbacks
           /\ pool' \in {pool, Enqueue(pool, DisconnectTask)}
           /\ calls' = calls
\* C8: a read completion whose bytes fail to decode enters drop(PacketError);
\* it dispatches no task for that input and leaves the registry unchanged, and
\* so does the drop() it runs.
C8_DecodeFailure ==
    /\ []C8_NoTaskForBadRead
    /\ [][C8_BadReadStep /\ C8_PacketErrorDrop]_vars
C8_Witness ==
    /\ \E k \in Msgs : k = nReads /\ BadRead(k)
    /\ m_isDrop /\ pc[RProc] \notin {"drop", "disc_close", "disc_null", "drop_enq"}
    /\ \E s \in SeqIds : m_callbacks[s] # NoCb

\* the parts of the routing claim: a state invariant and two step properties
C9_OneTask ==
    \A k \in Msgs : GoodRead(k) =>
        /\ \A t \in TasksFor(k) : Copies(t) = 1 /\ t.kind \in {"resp", "recv"}
        /\ Cardinality(TasksFor(k)) <= 1
        /\ (k < nReads \/ pc[RProc] # "r_erase") => Cardinality(TasksFor(k)) = 1
C9_ReadStep ==
    (nReads' = nReads + 1 /\ ~inbound'[nReads'].ec /\ inbound'[nReads'].valid)
        => LET s == inbound'[nReads'].seq IN
           /\ calls' = calls
           /\ m_callbacks' = m_callbacks
           /\ IF m_callbacks[s] = NoCb
              THEN pool' = Enqueue(pool, Task("recv", NoCb, nReads', s))
              ELSE /\ pool' = pool
                   /\ pc'[RProc] = "r_erase" /\ loc'[RProc].cb = m_callbacks[s]
C9_EraseStep ==
    (pc[RProc] = "r_erase" /\ pc'[RProc] # "r_erase" /\ ~crashed')
        => /\ m_callbacks'[loc[RProc].seq] = NoCb
           /\ pool' = Enqueue(pool, Task("resp", loc[RProc].cb, loc[RProc].msg, loc[RProc].seq))
           /\ calls' = calls
\* C9: a decoded message whose sequence identifier has a registered callback
\* removes that entry and enqueues one task for the stored response handler;
\* one without enqueues one task for the generic receive handler; the read
\* completion itself invokes no handler.
C9_Routing ==
    /\ []C9_OneTask
    /\ [][C9_ReadStep /\ C9_EraseStep]_vars
C9_Witness ==
    \E t1, t2 \in BagToSet(calls) : t1.kind = "resp" /\ t2.kind = "recv"

\* the steps of getAndRemoveRespCallback: its find, its erase
C10_FindStep ==
    /\ (nReads' = nReads + 1) => m_callbacks' = m_callbacks
    /\ \A r \in Reqs : (timer[r] = "armed" /\ timer'[r] \in {"erase", "done"}) =>
          /\ m_callbacks' = m_callbacks
          /\ (m_callbacks[req[r].seq] = NoCb) => (pool' = pool /\ timer'[r] = "done")
C10_EraseStep ==
    /\ (pc[RProc] = "r_erase" /\ pc'[RProc] # "r_erase") =>
          \A s \in SeqIds : m_callbacks'[s] =
              IF s = loc[RProc].seq THEN NoCb ELSE m_callbacks[s]
    /\ \A r \in Reqs : (timer[r] = "erase" /\ timer'[r] = "done") =>
          \A s \in SeqIds : m_callbacks'[s] =
              IF s = req[r].seq THEN NoCb ELSE m_callbacks[s]
\* C10: getAndRemoveRespCallback(id) changes no registry entry but that of id:
\* a lookup that finds nothing changes nothing and enqueues nothing, a lookup
\* that finds the entry erases that entry alone.
C10_Frame == [][C10_FindStep /\ C10_EraseStep]_vars
C10_Witness ==
    \E s1, s2 \in SeqIds, t \in BagToSet(pool) :
        /\ s1 # s2 /\ t.kind \in {"resp", "timeout"} /\ t.seq = s1
        /\ m_callbacks[s1] = NoCb /\ m_callbacks[s2] # NoCb /\ ~crashed

\* the read pipeline has removed the callback of request r for its response:
\* the response task of r exists, run or not
ResponseTook(r) ==
    \E t \in BagToSet(pool) \cup BagToSet(calls) : t.kind = "resp" /\ t.cb = r
\* the timer of r expires after that: its lookup must come back empty, for a
\* lookup that finds an entry goes on to erase it and to enqueue a TimeOut task
C11_LateFiringStep ==
    \A r \in Reqs :
        (ResponseTook(r) /\ timer[r] = "armed" /\ timer'[r] \in {"erase", "done"})
            => /\ timer'[r] = "done"
               /\ m_callbacks' = m_callbacks /\ pool' = pool /\ calls' = calls
\* C11: once the read pipeline has removed the callback of a request for its
\* response, a later firing of that request's timer is a no-op: it takes no
\* callback, changes no registry entry and enqueues nothing, whatever was sent
\* and registered in between.
C11_LateFiringNoop == [][C11_LateFiringStep]_vars

\* the read completion being handled delivered bytes that failed to decode
LastReadBad == \E k \in Msgs : k = nReads /\ BadRead(k)
\* C12: after a read completion whose bytes fail to decode, onRead does not
\* re-arm the read: it makes no asyncRead() call once onReadPacket has returned
\* from drop(PacketError).
C12_NoRearmAfterBadRead ==
    [][(pc[RProc] = "rearm" /\ pc'[RProc] # "rearm") => ~LastReadBad]_vars

\* a transport write has failed: drop(WriteError) has been called
WriteFailed ==
    \/ "WriteError" \in dropReasons
    \/ \E p \in Procs : pc[p] = "drop" /\ loc[p].reason = "WriteError"
\* thread p was completing or issuing a write in this step
WriteStepOf(p) ==
    \/ p = WProc /\ pc[p] = "idle" /\ writeOps # <<>> /\ writeOps' = Tail(writeOps)
    \/ p = WProc /\ pc[p] = "w_packet" /\ pc'[p] # "w_packet"
    \/ p \in Callers /\ pc[p] = "send_queue" /\ pc'[p] # "send_queue"
C13_FailureDrops ==
    \A p \in Procs :
        (WriteStepOf(p) /\ nFaults' = nFaults + 1)
            => /\ pc'[p] = "drop" /\ loc'[p].reason = "WriteError"
               /\ written' = written
C13_Abandoned == WriteFailed => (written' = written /\ writeOps' = writeOps)
\* C13: a write completion with an error, or a write whose issue throws, calls
\* drop(WriteError); from then on nothing is handed to the transport, neither
\* the entries queued at that moment nor the ones later sends append.
C13_WriteFailure == [][C13_FailureDrops /\ C13_Abandoned]_vars
C13_Witness ==
    /\ "WriteError" \in dropReasons /\ written = <<>> /\ Len(m_queue) = 2
    /\ \A c \in Callers : pc[c] = "idle"

\* the callback of request r is the one registered under r's identifier
Registered(r) == req[r].resp /\ m_callbacks[req[r].seq] = r
\* the TimeOut deliveries for request r, enqueued or made
TimeOutTask(r) == Task("timeout", r, 0, req[r].seq)
TimeOuts(r) == CopiesIn(TimeOutTask(r), pool) + CopiesIn(TimeOutTask(r), calls)
\* C14: a timer that expires while its request's callback is registered leads
\* to one invocation of that request's handler with TimeOut and no message, and
\* to nothing else: the handler is not invoked a second time.
C14_TimeoutOnce == \A r \in Reqs : TimeOuts(r) <= 1

\* the send that starts request nSends + 1 with a response handler: its timer is
\* started exactly if the option timeout, or failing that the default, is positive
C15_SelectStep ==
    \A c \in Callers, s \in SeqIds, opt \in Timeouts :
        SendStart(c, s, TRUE, opt) =>
            ((timer'[nSends'] = "armed") <=>
                (IF opt > 0 THEN opt > 0 ELSE m_sendMsgTimeout > 0))
\* a request registered without a timer is not resolved by a TimeOut
C15_UntimedByResponseOnly ==
    \A r \in Reqs : (req[r].resp /\ ~req[r].timed) => (timer[r] = "none" /\ TimeOuts(r) = 0)
\* C15: asyncSendMessage with a response handler uses the option timeout if it
\* is positive and the session default otherwise, and starts a timer exactly
\* if the timeout selected is positive; a callback registered without a timer
\* is resolved by a matching response only.
C15_TimeoutSelection ==
    /\ []C15_UntimedByResponseOnly
    /\ [][C15_SelectStep]_vars

\* the first asyncRead of the session has reached the transport
ReadIssued == readOps > 0 \/ nReads > 0
\* C16: a session started with startAsClient invokes the connect handler once,
\* and not before its first asyncRead has been issued.
C16_ReadBeforeConnect == nConnect <= 1 /\ (nConnect > 0 => ReadIssued)

\* the handshake of a server-role session has failed: drop(AcceptError) was called
AcceptFailed ==
    \/ "AcceptError" \in dropReasons
    \/ pc[RProc] = "drop" /\ loc[RProc].reason = "AcceptError"
\* the completion of the handshake: onHandshake(ec) runs
C17_HandshakeStep ==
    (pc[RProc] = "handshaking" /\ pc'[RProc] # "handshaking") =>
        /\ (nFaults' # nFaults) =>
              /\ pc'[RProc] = "drop" /\ loc'[RProc].reason = "AcceptError"
              /\ nConnect' = nConnect /\ readOps' = readOps
        /\ (nFaults' = nFaults) =>
              /\ nConnect' = nConnect + 1 /\ pc'[RProc] = "rearm"
              /\ nDrop' = nDrop /\ m_isDrop' = m_isDrop /\ m_stream' = m_stream
\* drop(AcceptError) comes from a failed handshake only
C17_AcceptErrorStep ==
    (AcceptFailed' /\ ~AcceptFailed) => (pc[RProc] = "handshaking" /\ nFaults' # nFaults)
C17_AfterFailure ==
    AcceptFailed => (nConnect = 0 /\ ~ReadIssued /\ pc[RProc] # "rearm")
SendsInTime == written = enq /\ ~ioAfterDrop
\* C18: no task of the worker pool invokes a handler once the session has been
\* destroyed: a task that runs after that is discarded.  (Stated for sessions
\* that were not sent on during or after their teardown.)
C18_NoHandlerAfterDestroy == [][(~alive /\ SendsInTime) => calls' = calls]_vars

\* the session is not torn down: the flag is unset and the handle is there
NotDropped == ~m_isDrop /\ m_stream # "null" /\ ~crashed
\* the writes issued whose completion has not been dealt with yet: pending at
\* the transport, or completed with onWritePacket still to pop the buffer
WritesInFlight == Len(writeOps) + (IF pc[WProc] = "w_packet" THEN 1 ELSE 0)
C19_QueueInv ==
    (NotDropped /\ ~WriteFailed /\ x_queue = {}) =>
        /\ (m_queue # <<>>) <=> (WritesInFlight = 1)
        /\ WritesInFlight <= 1
        /\ writeOps # <<>> => Head(writeOps) = Head(m_queue)
InSeq(x, q) == \E i \in 1..Len(q) : q[i] = x
C19_Transmitted ==
    \A r \in Reqs :
        InSeq(r, enq) ~> (InSeq(r, written) \/ ~NotDropped \/ WriteFailed)
\* C19: while the session is not dropped and no write has failed, whenever the
\* queue lock is free the outbound queue is non-empty exactly if one write is
\* in flight, and that write carries the head of the queue; with write
\* completions that are eventually delivered, every buffer enqueued is
\* eventually handed to the transport.
C19_WriteChain == []C19_QueueInv /\ C19_Transmitted
C19_Witness ==
    /\ NotDropped /\ ~WriteFailed /\ x_queue = {} /\ nFaults = 0 /\ nCtl = 0
    /\ Len(m_queue) = 2 /\ writeOps = <<Head(m_queue)>>

\* a response or a timeout has removed the callback of request r: the task that
\* delivers it exists, run or not
Taken(r) ==
    \E t \in BagToSet(pool) \cup BagToSet(calls) :
        t.kind \in {"resp", "timeout"} /\ t.cb = r
\* a request with a response handler whose buffer is in the outbound queue, or
\* was, has its callback in the registry until a response or a timeout takes it
C20_RegisteredWhenQueued ==
    \A r \in Reqs : (req[r].resp /\ InSeq(r, enq)) => (Registered(r) \/ Taken(r))
\* a message read under the identifier of a transmitted request whose callback
\* was not taken goes the way of the response handler, not of the receive handler
C20_RouteStep ==
    (nReads' = nReads + 1 /\ ~inbound'[nReads'].ec /\ inbound'[nReads'].valid) =>
        \A r \in Reqs :
            (req[r].resp /\ InSeq(r, written) /\ ~Taken(r)
                /\ req[r].seq = inbound'[nReads'].seq)
              => /\ pool' = pool
                 /\ pc'[RProc] = "r_erase" /\ loc'[RProc].cb = r
\* C20: asyncSendMessage registers the callback before it appends the buffer:
\* a response to a transmitted request finds the request's callback registered,
\* unless a timeout or an earlier response has removed it, and is not handed
\* to the generic receive handler for want of a registration.
C20_RegisterFirst == []C20_RegisteredWhenQueued /\ [][C20_RouteStep]_vars
C20_Witness ==
    \E r \in Reqs :
        /\ req[r].resp /\ InSeq(r, written)
        /\ pc[RProc] = "r_erase" /\ loc[RProc].cb = r
        /\ \A c \in Callers : pc[c] = "idle"
        /\ ~crashed /\ nFaults = 0

====
